---- MODULE Spec2Model ----
(***************************************************************************)
(* EvolutionSim engine: the temperature grid (TemperatureSystem), the      *)
(* binary codec (BinaryWriter / BinaryReader, Serialize / Deserialize) and *)
(* the save coordinator (SaveSystem, GameSaveData).                        *)
(*                                                                         *)
(* Representation of the C++ value types:                                  *)
(*  - uint8_t is a number in 0..255.                                       *)
(*  - uint16_t / uint32_t / uint64_t held in a record or read from a       *)
(*    buffer are base-256 numerals of 2 / 4 / 8 digits, most significant   *)
(*    digit first (0x45564F53 is <<69, 86, 79, 83>>): TLC integers are 32  *)
(*    bits wide and cannot hold them as numbers.  Shifts, masks and ors    *)
(*    are computed on the numerals.                                        *)
(*  - double and float are fixed-point numbers: the integer n stands for   *)
(*    n / 2^FracBits, and every arithmetic operation rounds its exact      *)
(*    result to the nearest such number, ties to even.                     *)
(*  - a double or float held in a GameSaveData record, where no            *)
(*    arithmetic is done on it, is its IEEE-754 bit pattern, an 8- or      *)
(*    4-digit numeral: the codec copies bit patterns (memcpy), and a       *)
(*    corrupted buffer can hold any pattern.  DoubleBits gives the         *)
(*    pattern of a fixed-point number.                                     *)
(*  - size_t, and the grid's width and height, are plain numbers (they     *)
(*    stay small); the sum m_position + size of the reader's length        *)
(*    checks is formed in the width of size_t, 4 or 8 bytes.               *)
(*  - storage is not bounded: std::vector::resize and the writer's        *)
(*    insert always succeed, so a count that the buffer cannot back is     *)
(*    found by the read that follows the resize.                           *)
(***************************************************************************)
EXTENDS Integers, Sequences, FiniteSets, TLC

VARIABLES grid, last, nops, saveData, origin, saved, buf, result, reader

vars == <<grid, last, nops, saveData, origin, saved, buf, result, reader>>

(***************************************************************************)
(* Bounds of the model.                                                    *)
(***************************************************************************)
FracBits == 3
MaxDim == 3
MaxOps == 2
MaxRecDim == 1
MaxName == 1
MaxCreatures == 1
MaxDna == 1

(***************************************************************************)
(* Arithmetic helpers.                                                     *)
(***************************************************************************)
RECURSIVE Pow2(_)
Pow2(k) == IF k = 0 THEN 1 ELSE 2 * Pow2(k - 1)

Scale == Pow2(FracBits)

Abs(a) == IF a < 0 THEN 0 - a ELSE a

\* a / b rounded to the nearest integer, ties to even (b > 0)
RoundDiv(a, b) ==
    LET q == a \div b
        r == a % b
    IN  IF 2 * r < b THEN q
        ELSE IF 2 * r > b THEN q + 1
        ELSE IF q % 2 = 0 THEN q ELSE q + 1

RECURSIVE FloorSqrt(_, _)
FloorSqrt(n, s) == IF (s + 1) * (s + 1) > n THEN s ELSE FloorSqrt(n, s + 1)

\* sqrt(n) rounded to the nearest integer
RoundSqrt(n) ==
    LET s == FloorSqrt(n, 0)
    IN  IF n - s * s > s THEN s + 1 ELSE s

RECURSIVE FloorLog2(_)
FloorLog2(n) == IF n < 2 THEN 0 ELSE 1 + FloorLog2(n \div 2)

RECURSIVE Div256(_, _)
Div256(n, k) == IF k = 0 THEN n ELSE Div256(n \div 256, k - 1)

RECURSIVE BitOr(_, _)
BitOr(a, b) ==
    IF a = 0 THEN b
    ELSE IF b = 0 THEN a
    ELSE (IF a % 2 = 1 \/ b % 2 = 1 THEN 1 ELSE 0) + 2 * BitOr(a \div 2, b \div 2)

(***************************************************************************)
(* Unsigned integers as numerals.                                          *)
(***************************************************************************)
\* the w-digit numeral of the number n
U(n, w) == [i \in 1..w |-> Div256(n, w - i) % 256]

Zero(w) == [i \in 1..w |-> 0]

RECURSIVE Val(_)
\* the number a numeral stands for (used only where it fits a TLC integer)
Val(v) == IF v = <<>> THEN 0 ELSE 256 * Val(SubSeq(v, 1, Len(v) - 1)) + v[Len(v)]

RECURSIVE NumLess(_, _)
\* a < b for numerals of the same width
NumLess(a, b) ==
    IF a = <<>> THEN FALSE
    ELSE IF a[1] # b[1] THEN a[1] < b[1]
    ELSE NumLess(Tail(a), Tail(b))

\* value >> (8 * i)
ShiftRight(v, i) == [k \in 1..Len(v) |-> IF k <= i THEN 0 ELSE v[k - i]]

\* value << (8 * i), truncated to the width of value
ShiftLeft(v, i) == [k \in 1..Len(v) |-> IF k + i > Len(v) THEN 0 ELSE v[k + i]]

\* a | b
NumOr(a, b) == [k \in 1..Len(a) |-> BitOr(a[k], b[k])]

\* static_cast<uint8_t>(value & 0xFF)
LowByte(v) == v[Len(v)]

\* static_cast<uintN_t>(byte)
Widen(b, w) == [k \in 1..w |-> IF k = w THEN b ELSE 0]

\* n < v for a number n >= 0 and a numeral v: the comparison of a size_t with a
\* uint32_t, without forming the number of v
NatLess(n, v) == NumLess(U(n, Len(v)), v)

\* the digits of a pattern whose first 24 bits are the number hi and whose other
\* bits are 0
PatternDigits(hi, w) == [k \in 1..w |-> IF k <= 3 THEN Div256(hi, 3 - k) % 256 ELSE 0]

\* the bit pattern of n / 2^FracBits in a format of 1 sign bit, expBits exponent
\* bits (bias) and 8 * w - 1 - expBits mantissa bits, as a w-digit numeral; e is
\* the exponent of |n| and top the mantissa bits among the first 24 bits
IeeePattern(n, w, expBits, bias, e, top) ==
    PatternDigits((IF n < 0 THEN Pow2(23) ELSE 0)
                  + (bias + e - FracBits) * Pow2(top)
                  + (Abs(n) - Pow2(e)) * Pow2(top - e), w)

IeeeBits(n, w, expBits, bias) ==
    IF n = 0 THEN Zero(w)
    ELSE IeeePattern(n, w, expBits, bias, FloorLog2(Abs(n)), 24 - 1 - expBits)

\* the double n / 2^FracBits as a GameSaveData record and the codec hold it
DoubleBits(n) == IeeeBits(n, 8, 11, 1023)

\* the float n / 2^FracBits as a CreatureData record and the codec hold it
FloatBits(n) == IeeeBits(n, 4, 8, 127)

(***************************************************************************)
(* Serialization.hpp: constants.                                           *)
(***************************************************************************)
\* 0x45564F53, 'EVOS'
SERIALIZATION_MAGIC == <<69, 86, 79, 83>>

CURRENT_VERSION == 1

\* the bytes of the envelope header: the uint32_t magic and the uint16_t version
HeaderSize == 4 + 2

(***************************************************************************)
(* BinaryWriter: every operation maps m_data to the new m_data.            *)
(***************************************************************************)
\* push_back of (value >> (i * 8)) & 0xFF for i = 0 .. n-1
PushBytesLowFirst(m_data, value, n) ==
    m_data \o [i \in 1..n |-> LowByte(ShiftRight(value, i - 1))]

WriteUint8(m_data, value) == Append(m_data, value)

WriteUint16(m_data, value) ==
    Append(Append(m_data, LowByte(value)), LowByte(ShiftRight(value, 1)))

WriteUint32(m_data, value) == PushBytesLowFirst(m_data, value, 4)

WriteUint64(m_data, value) == PushBytesLowFirst(m_data, value, 8)

\* memcpy to a uint32_t, then WriteUint32: value is the float's bit pattern
WriteFloat(m_data, value) == WriteUint32(m_data, value)

\* memcpy to a uint64_t, then WriteUint64: value is the double's bit pattern
WriteDouble(m_data, value) == WriteUint64(m_data, value)

WriteBool(m_data, value) == WriteUint8(m_data, IF value THEN 1 ELSE 0)

\* str is the sequence of the string's bytes
WriteString(m_data, str) == WriteUint32(m_data, U(Len(str), 4)) \o str

WriteBytes(m_data, data) == m_data \o data

(***************************************************************************)
(* BinaryReader.  A reader is [m_position, err]: the cursor and the        *)
(* exception in flight (NoError when there is none).  m_data is the buffer *)
(* and m_size its length.  Every operation maps a reader to                *)
(* [r |-> the reader after it, v |-> the value read]; once an exception is *)
(* in flight nothing more executes, so the operation leaves the reader as  *)
(* it is.                                                                  *)
(***************************************************************************)
NoError == [type |-> "none", what |-> ""]

OutOfRange(what) == [type |-> "std::out_of_range", what |-> what]

RuntimeError(what) == [type |-> "std::runtime_error", what |-> what]

\* the behaviour is undefined from here on: what the build does is for the caller
\* of the operation to say
Undefined(what) == [type |-> "undefined behaviour", what |-> what]

\* BinaryReader(data, size).  size_t is sizeof(size_t): 8 on the desktop targets, 4
\* on wasm32 (BinaryReaderOn).  LoadGame is followed with 8: the sums it forms
\* stay below 2^32 for every buffer of SaveSpec and CodecSpec.
BinaryReader == [m_position |-> 0, err |-> NoError, size_t |-> 8]

BinaryReaderOn(bytes) == [BinaryReader EXCEPT !.size_t = bytes]

Throw(r, e) == [r EXCEPT !.err = e]

\* m_data[i].  The index is below m_size wherever the code's checks are in place.
ByteAt(m_data, i) == IF i < Len(m_data) THEN m_data[i + 1] ELSE 0

\* value |= static_cast<uintN_t>(m_data[m_position++]) << (i * 8), for i = 0 .. n-1
RECURSIVE OrBytesLowFirst(_, _, _, _, _)
OrBytesLowFirst(m_data, pos, value, i, n) ==
    IF i = n THEN value
    ELSE OrBytesLowFirst(m_data, pos + 1,
                         NumOr(value, ShiftLeft(Widen(ByteAt(m_data, pos), n), i)),
                         i + 1, n)

ReadUint8(m_data, r) ==
    IF r.err # NoError THEN [r |-> r, v |-> 0]
    ELSE IF r.m_position + 1 > Len(m_data)
         THEN [r |-> Throw(r, OutOfRange("Read past end of buffer")), v |-> 0]
         ELSE [r |-> [r EXCEPT !.m_position = @ + 1], v |-> ByteAt(m_data, r.m_position)]

ReadUint16(m_data, r) ==
    IF r.err # NoError THEN [r |-> r, v |-> Zero(2)]
    ELSE IF r.m_position + 2 > Len(m_data)
         THEN [r |-> Throw(r, OutOfRange("Read past end of buffer")), v |-> Zero(2)]
         ELSE [r |-> [r EXCEPT !.m_position = @ + 2],
               v |-> OrBytesLowFirst(m_data, r.m_position, Zero(2), 0, 2)]

\* ReadUint32 without its bounds check: the bytes past the end read as 0
ReadUint32Unchecked(m_data, r) ==
    IF r.err # NoError THEN [r |-> r, v |-> Zero(4)]
    ELSE [r |-> [r EXCEPT !.m_position = @ + 4],
          v |-> OrBytesLowFirst(m_data, r.m_position, Zero(4), 0, 4)]

ReadUint32(m_data, r) ==
    IF r.err # NoError THEN [r |-> r, v |-> Zero(4)]
    ELSE IF r.m_position + 4 > Len(m_data)
         THEN [r |-> Throw(r, OutOfRange("Read past end of buffer")), v |-> Zero(4)]
         ELSE [r |-> [r EXCEPT !.m_position = @ + 4],
               v |-> OrBytesLowFirst(m_data, r.m_position, Zero(4), 0, 4)]

ReadUint64(m_data, r) ==
    IF r.err # NoError THEN [r |-> r, v |-> Zero(8)]
    ELSE IF r.m_position + 8 > Len(m_data)
         THEN [r |-> Throw(r, OutOfRange("Read past end of buffer")), v |-> Zero(8)]
         ELSE [r |-> [r EXCEPT !.m_position = @ + 8],
               v |-> OrBytesLowFirst(m_data, r.m_position, Zero(8), 0, 8)]

\* ReadUint32, then memcpy to a float: the value is the float's bit pattern
ReadFloat(m_data, r) == ReadUint32(m_data, r)

\* ReadUint64, then memcpy to a double: the value is the double's bit pattern
ReadDouble(m_data, r) == ReadUint64(m_data, r)

NonZero(b) == [r |-> b.r, v |-> (b.r.err = NoError /\ b.v # 0)]

ReadBool(m_data, r) == NonZero(ReadUint8(m_data, r))

\* static_cast<size_t>(size), for a numeral of up to w digits
Extend(size, w) == [k \in 1..w |-> IF k <= w - Len(size) THEN 0 ELSE size[k - w + Len(size)]]

\* ~v, the numeral of 2^(8 * Len(v)) - 1 - v
Complement(v) == [k \in 1..Len(v) |-> 255 - v[k]]

\* m_position + size is 2^(8 * size_t) or more, and wraps around
Wraps(r, size) ==
    NumLess(Complement(U(r.m_position, r.size_t)), Extend(size, r.size_t))

\* m_position + size > m_size, for a size_t m_position and a uint32_t or size_t
\* size, in the arithmetic of size_t: a sum that wraps is m_position + size less
\* 2^(8 * size_t), which is below m_position
PastEnd(m_data, r, size) ==
    IF Wraps(r, size)
    THEN r.m_position - 1 - Val(Complement(Extend(size, r.size_t))) > Len(m_data)
    ELSE r.m_position > Len(m_data) \/ NatLess(Len(m_data) - r.m_position, size)

\* ReadString after its ReadUint32: length is [r, v], the reader and the length
\* read.  When the sum wrapped and the check let it pass, std::string is built from
\* length bytes of which all but the first few lie past the buffer.
ReadStringBody(m_data, length) ==
    IF length.r.err # NoError THEN [r |-> length.r, v |-> <<>>]
    ELSE IF PastEnd(m_data, length.r, length.v)
         THEN [r |-> Throw(length.r, OutOfRange("String length exceeds buffer size")),
               v |-> <<>>]
         ELSE IF Wraps(length.r, length.v)
              THEN [r |-> Throw(length.r, Undefined("std::string(m_data + m_position, length)")),
                    v |-> <<>>]
              ELSE [r |-> [length.r EXCEPT !.m_position = @ + Val(length.v)],
                    v |-> [i \in 1..Val(length.v) |->
                              ByteAt(m_data, length.r.m_position + i - 1)]]

ReadString(m_data, r) == ReadStringBody(m_data, ReadUint32(m_data, r))

\* size is a numeral; the value is the bytes copied to out.  When the sum wrapped
\* and the check let it pass, memcpy copies from past the buffer.
ReadBytes(m_data, r, size) ==
    IF r.err # NoError THEN [r |-> r, v |-> <<>>]
    ELSE IF PastEnd(m_data, r, size)
         THEN [r |-> Throw(r, OutOfRange("Read past end of buffer")), v |-> <<>>]
         ELSE IF Wraps(r, size)
              THEN [r |-> Throw(r, Undefined("std::memcpy(out, m_data + m_position, size)")),
                    v |-> <<>>]
              ELSE [r |-> [r EXCEPT !.m_position = @ + Val(size)],
                    v |-> [i \in 1..Val(size) |-> ByteAt(m_data, r.m_position + i - 1)]]

\* ValidateMagic that accepts any magic
CompareMagicAny(magic) == magic.r

\* ValidateMagic after its ReadUint32
CompareMagic(magic) ==
    IF magic.r.err # NoError THEN magic.r
    ELSE IF magic.v # SERIALIZATION_MAGIC
         THEN Throw(magic.r, RuntimeError("Invalid file format"))
         ELSE magic.r

ValidateMagic(m_data, r) == CompareMagic(ReadUint32(m_data, r))

\* CheckVersion that rejects the current version too
CompareVersionStrict(r, version) ==
    IF version >= CURRENT_VERSION
    THEN Throw(r, RuntimeError("Incompatible save version"))
    ELSE r

\* version > CURRENT_VERSION, for the uint16_t loaded
CompareVersion(r, version) ==
    IF version > CURRENT_VERSION
    THEN Throw(r, RuntimeError("Incompatible save version"))
    ELSE r

\* A const method: m_position stays.  The uint16_t is loaded through a
\* reinterpret_cast of m_data + m_position, in the byte order of the machine, which
\* is little-endian on every target of the build (wasm32, x86-64).
CheckVersion(m_data, r) ==
    IF r.err # NoError THEN r
    ELSE IF r.m_position + 2 > Len(m_data)
         THEN Throw(r, OutOfRange("Cannot read version"))
         ELSE CompareVersion(r, ByteAt(m_data, r.m_position)
                                + 256 * ByteAt(m_data, r.m_position + 1))

(***************************************************************************)
(* SaveSystem.hpp: GameSaveData.  A record is                              *)
(*   [saveName, timestamp, version, world |-> [width, height,              *)
(*    simulationTime], temperatureData |-> [temperatures,                  *)
(*    ambientTemperature], creatures]                                      *)
(* and a creature is [x, y, energy, dna].  Resizing a vector succeeds:     *)
(* memory is taken to suffice.                                             *)
(*                                                                         *)
(* A Deserialize maps [r, v], the reader and the object before it, to the  *)
(* reader and the object after it.  Field(acc, rd, name) is one statement  *)
(* `name = reader.ReadX()`: rd is what the read gave from acc.r, and the   *)
(* assignment is made when the read did not throw.                         *)
(***************************************************************************)
Field(acc, rd, name) ==
    [r |-> rd.r,
     v |-> IF rd.r.err = NoError THEN [acc.v EXCEPT ![name] = rd.v] ELSE acc.v]

\* world.name = reader.ReadX()
WorldField(acc, rd, name) ==
    [r |-> rd.r,
     v |-> IF rd.r.err = NoError THEN [acc.v EXCEPT !.world[name] = rd.v] ELSE acc.v]

\* name[i] = reader.ReadX(), or name[i].Deserialize(reader), for the next i
Element(acc, rd, name) ==
    [r |-> rd.r,
     v |-> IF rd.r.err = NoError THEN [acc.v EXCEPT ![name] = Append(@, rd.v)]
           ELSE acc.v]

\* a value-initialized GameSaveData (std::make_unique<GameSaveData>())
EmptySaveData ==
    [saveName |-> <<>>, timestamp |-> Zero(8), version |-> Zero(4),
     world |-> [width |-> Zero(4), height |-> Zero(4), simulationTime |-> Zero(8)],
     temperatureData |-> [temperatures |-> <<>>, ambientTemperature |-> Zero(8)],
     creatures |-> <<>>]

\* a value-initialized CreatureData (creatures.resize(creatureCount))
EmptyCreature == [x |-> Zero(4), y |-> Zero(4), energy |-> Zero(4), dna |-> <<>>]

RECURSIVE WriteDoubles(_, _, _)
\* for (double temp : temperatures) writer.WriteDouble(temp)
WriteDoubles(m_data, temperatures, i) ==
    IF i > Len(temperatures) THEN m_data
    ELSE WriteDoubles(WriteDouble(m_data, temperatures[i]), temperatures, i + 1)

TemperatureData_Serialize(m_data, t) ==
    WriteDoubles(WriteUint32(WriteDouble(m_data, t.ambientTemperature),
                             U(Len(t.temperatures), 4)),
                 t.temperatures, 1)

RECURSIVE ReadDoubles(_, _, _, _)
\* for (uint32_t i = 0; i < count; ++i) temperatures[i] = reader.ReadDouble();
\* acc.v is the TemperatureData
ReadDoubles(m_data, acc, count, i) ==
    IF acc.r.err # NoError \/ ~NatLess(i, count) THEN acc
    ELSE ReadDoubles(m_data,
                     Element(acc, ReadDouble(m_data, acc.r), "temperatures"),
                     count, i + 1)

\* TemperatureData::Deserialize after the read of count; temperatures.resize(count)
\* leaves no element behind when a read throws, for the object is dropped
ReadTemperatures(m_data, acc, count) ==
    IF count.r.err # NoError THEN [r |-> count.r, v |-> acc.v]
    ELSE ReadDoubles(m_data, [r |-> count.r, v |-> acc.v], count.v, 0)

ReadTemperatureCount(m_data, acc) ==
    ReadTemperatures(m_data, acc, ReadUint32(m_data, acc.r))

TemperatureData_Deserialize(m_data, acc) ==
    ReadTemperatureCount(m_data,
        Field(acc, ReadDouble(m_data, acc.r), "ambientTemperature"))

CreatureData_Serialize(m_data, c) ==
    IF c.dna # <<>>
    THEN WriteBytes(WriteUint32(WriteFloat(WriteFloat(WriteFloat(m_data, c.x), c.y),
                                           c.energy),
                                U(Len(c.dna), 4)),
                    c.dna)
    ELSE WriteUint32(WriteFloat(WriteFloat(WriteFloat(m_data, c.x), c.y), c.energy),
                     U(Len(c.dna), 4))

\* CreatureData::Deserialize after the read of dnaSize
ReadDna(m_data, acc, dnaSize) ==
    IF dnaSize.r.err # NoError THEN [r |-> dnaSize.r, v |-> acc.v]
    ELSE IF NatLess(0, dnaSize.v)
         THEN Field([r |-> dnaSize.r, v |-> acc.v],
                    ReadBytes(m_data, dnaSize.r, dnaSize.v), "dna")
         ELSE [r |-> dnaSize.r, v |-> acc.v]

ReadDnaSize(m_data, acc) == ReadDna(m_data, acc, ReadUint32(m_data, acc.r))

ReadEnergy(m_data, acc) ==
    Field(acc, ReadFloat(m_data, acc.r), "energy")

ReadY(m_data, acc) ==
    Field(acc, ReadFloat(m_data, acc.r), "y")

ReadX(m_data, acc) ==
    Field(acc, ReadFloat(m_data, acc.r), "x")

CreatureData_Deserialize(m_data, acc) ==
    ReadDnaSize(m_data, ReadEnergy(m_data, ReadY(m_data, ReadX(m_data, acc))))

RECURSIVE WriteCreatures(_, _, _)
\* for (const auto& creature : creatures) creature.Serialize(writer)
WriteCreatures(m_data, creatures, i) ==
    IF i > Len(creatures) THEN m_data
    ELSE WriteCreatures(CreatureData_Serialize(m_data, creatures[i]), creatures, i + 1)

RECURSIVE ReadCreatures(_, _, _, _)
\* for (uint32_t i = 0; i < creatureCount; ++i) creatures[i].Deserialize(reader);
\* acc.v is the GameSaveData
ReadCreatures(m_data, acc, creatureCount, i) ==
    IF acc.r.err # NoError \/ ~NatLess(i, creatureCount) THEN acc
    ELSE ReadCreatures(m_data,
                       Element(acc,
                               CreatureData_Deserialize(m_data,
                                   [r |-> acc.r, v |-> EmptyCreature]),
                               "creatures"),
                       creatureCount, i + 1)

GameSaveData_Serialize(m_data, d) ==
    WriteCreatures(
        WriteUint32(
            TemperatureData_Serialize(
                WriteDouble(
                    WriteUint32(
                        WriteUint32(
                            WriteUint32(
                                WriteUint64(WriteString(m_data, d.saveName), d.timestamp),
                                d.version),
                            d.world.width),
                        d.world.height),
                    d.world.simulationTime),
                d.temperatureData),
            U(Len(d.creatures), 4)),
        d.creatures, 1)

\* GameSaveData::Deserialize after the read of creatureCount
ReadCreatureList(m_data, acc, creatureCount) ==
    IF creatureCount.r.err # NoError THEN [r |-> creatureCount.r, v |-> acc.v]
    ELSE ReadCreatures(m_data, [r |-> creatureCount.r, v |-> acc.v], creatureCount.v, 0)

ReadCreatureCount(m_data, acc) ==
    ReadCreatureList(m_data, acc, ReadUint32(m_data, acc.r))

ReadTemperatureData(m_data, acc) ==
    Field(acc,
          TemperatureData_Deserialize(m_data, [r |-> acc.r, v |-> acc.v.temperatureData]),
          "temperatureData")

ReadSimulationTime(m_data, acc) ==
    WorldField(acc, ReadDouble(m_data, acc.r), "simulationTime")

ReadHeight(m_data, acc) ==
    WorldField(acc, ReadUint32(m_data, acc.r), "height")

ReadWidth(m_data, acc) ==
    WorldField(acc, ReadUint32(m_data, acc.r), "width")

ReadVersion(m_data, acc) ==
    Field(acc, ReadUint32(m_data, acc.r), "version")

ReadTimestamp(m_data, acc) ==
    Field(acc, ReadUint64(m_data, acc.r), "timestamp")

ReadSaveName(m_data, acc) ==
    Field(acc, ReadString(m_data, acc.r), "saveName")

GameSaveData_Deserialize(m_data, acc) ==
    ReadCreatureCount(m_data,
      ReadTemperatureData(m_data,
        ReadSimulationTime(m_data,
          ReadHeight(m_data,
            ReadWidth(m_data,
              ReadVersion(m_data,
                ReadTimestamp(m_data,
                  ReadSaveName(m_data, acc))))))))

(***************************************************************************)
(* Serialization.cpp: the helper functions.                                *)
(***************************************************************************)
Serialize(obj) ==
    GameSaveData_Serialize(
        WriteUint16(WriteUint32(<<>>, SERIALIZATION_MAGIC), U(CURRENT_VERSION, 2)),
        obj)

\* obj.Deserialize(reader), called with the reader as CheckVersion left it: the
\* call is made when that holds no exception.  atBody is that reader.
DeserializeBody(data, atBody) ==
    [atBody |-> atBody,
     obj |-> IF atBody.err = NoError
             THEN GameSaveData_Deserialize(data, [r |-> atBody, v |-> EmptySaveData])
             ELSE [r |-> atBody, v |-> EmptySaveData]]

\* Deserialize(obj, data, size): [atBody, obj |-> [r, v]], with r the reader after
\* the three calls and v the object
Deserialize(data) ==
    DeserializeBody(data, CheckVersion(data, ValidateMagic(data, BinaryReader)))

(***************************************************************************)
(* TemperatureSystem.  A grid is [cells, width, height,                    *)
(* ambientTemperature] with cells[y][x] = [temperature, nextTemperature,   *)
(* lastUpdate], y in 0 .. height-1 and x in 0 .. width-1.                  *)
(***************************************************************************)
\* static constexpr double DIFFUSION_RATE = 0.05, as numerator and denominator
DIFFUSION_RATE == <<5, 100>>

\* the fixed-point number of the integer k
Fx(k) == k * Scale

\* a * b and a / b of two fixed-point numbers, and sqrt(a)
FxMul(a, b) == RoundDiv(a * b, Scale)

FxDiv(a, b) == RoundDiv(a * Scale, b)

FxSqrt(a) == RoundSqrt(a * Scale)

isValidPosition(g, x, y) ==
    x >= 0 /\ y >= 0 /\ x < g.width /\ y < g.height

initialize(g) ==
    LET centerX == RoundDiv(Fx(g.width), 2)
        centerY == RoundDiv(Fx(g.height), 2)
        maxDist == FxSqrt(FxMul(centerX, centerX) + FxMul(centerY, centerY))
        temp(x, y) ==
            LET dx   == Fx(x) - centerX
                dy   == Fx(y) - centerY
                dist == FxDiv(FxSqrt(FxMul(dx, dx) + FxMul(dy, dy)), maxDist)
            IN  FxMul(g.ambientTemperature, Fx(1) - RoundDiv(dist * 5, 10))
    IN  [g EXCEPT !.cells =
            [y \in 0..(g.height - 1) |->
                [x \in 0..(g.width - 1) |->
                    [temperature |-> temp(x, y),
                     nextTemperature |-> temp(x, y),
                     lastUpdate |-> 0]]]]

\* TemperatureSystem(width, height, ambientTemp): value-initialized cells, then
\* initialize()
TemperatureSystem(width, height, ambientTemp) ==
    initialize([cells |-> [y \in 0..(height - 1) |->
                              [x \in 0..(width - 1) |->
                                  [temperature |-> 0, nextTemperature |-> 0,
                                   lastUpdate |-> 0]]],
                width |-> width, height |-> height,
                ambientTemperature |-> ambientTemp])

\* const int dirs[4][2]
dirs == <<<<0, 1>>, <<1, 0>>, <<0, -1>>, <<-1, 0>>>>

RECURSIVE NeighbourSumOfFour(_, _, _, _, _)
\* the loop over dirs with count fixed at 4: a direction off the grid adds nothing
\* to sum and is counted
NeighbourSumOfFour(g, x, y, i, acc) ==
    IF i > 4 THEN acc
    ELSE LET nx == x + dirs[i][1]
             ny == y + dirs[i][2]
         IN  NeighbourSumOfFour(g, x, y, i + 1,
                 IF isValidPosition(g, nx, ny)
                 THEN [sum |-> acc.sum + g.cells[ny][nx].temperature,
                       count |-> acc.count + 1]
                 ELSE [sum |-> acc.sum, count |-> acc.count + 1])

RECURSIVE NeighbourSum(_, _, _, _, _)
\* the loop over dirs: [sum, count] after the directions i .. 4.  nx and ny are
\* ints; x + dir[0] below 0 fails isValidPosition.
NeighbourSum(g, x, y, i, acc) ==
    IF i > 4 THEN acc
    ELSE LET nx == x + dirs[i][1]
             ny == y + dirs[i][2]
         IN  NeighbourSum(g, x, y, i + 1,
                 IF isValidPosition(g, nx, ny)
                 THEN [sum |-> acc.sum + g.cells[ny][nx].temperature,
                       count |-> acc.count + 1]
                 ELSE acc)

\* the body of the two loops with the sign of diff reversed
DiffuseCellAway(g, x, y) ==
    LET n == NeighbourSum(g, x, y, 1, [sum |-> 0, count |-> 0])
        t == g.cells[y][x].temperature
    IN  IF n.count > 0
        THEN LET avg  == RoundDiv(n.sum, n.count)
                 diff == RoundDiv((avg - t) * DIFFUSION_RATE[1], DIFFUSION_RATE[2])
             IN  [g EXCEPT !.cells[y][x].nextTemperature = t - diff]
        ELSE [g EXCEPT !.cells[y][x].nextTemperature = t]

\* the body of the two loops writing the cell's temperature at once, so that the
\* cells swept later read it
DiffuseCellInPlace(g, x, y) ==
    LET n == NeighbourSum(g, x, y, 1, [sum |-> 0, count |-> 0])
        t == g.cells[y][x].temperature
    IN  IF n.count > 0
        THEN LET avg  == RoundDiv(n.sum, n.count)
                 diff == RoundDiv((avg - t) * DIFFUSION_RATE[1], DIFFUSION_RATE[2])
             IN  [g EXCEPT !.cells[y][x].temperature = t + diff,
                           !.cells[y][x].nextTemperature = t + diff]
        ELSE [g EXCEPT !.cells[y][x].nextTemperature = t]

\* the body of the two loops of diffuseTemperature for the cell (x, y)
DiffuseCell(g, x, y) ==
    LET n == NeighbourSum(g, x, y, 1, [sum |-> 0, count |-> 0])
        t == g.cells[y][x].temperature
    IN  IF n.count > 0
        THEN LET avg  == RoundDiv(n.sum, n.count)
                 diff == RoundDiv((avg - t) * DIFFUSION_RATE[1], DIFFUSION_RATE[2])
             IN  [g EXCEPT !.cells[y][x].nextTemperature = t + diff]
        ELSE [g EXCEPT !.cells[y][x].nextTemperature = t]

RECURSIVE DiffuseFrom(_, _, _)
\* the two loops of diffuseTemperature from the cell (x, y) on, y outer and x inner,
\* each cell on the grid as the cells before it left it
DiffuseFrom(g, x, y) ==
    IF y >= g.height THEN g
    ELSE IF x >= g.width THEN DiffuseFrom(g, 0, y + 1)
    ELSE DiffuseFrom(DiffuseCell(g, x, y), x + 1, y)

diffuseTemperature(g) == DiffuseFrom(g, 0, 0)

\* the commit loop without cell.lastUpdate = deltaTime
CommitTemperatureOnly(g, deltaTime) ==
    [g EXCEPT !.cells =
        [y \in 0..(g.height - 1) |->
            [x \in 0..(g.width - 1) |->
                [g.cells[y][x] EXCEPT !.temperature = g.cells[y][x].nextTemperature]]]]

\* the commit loop of update
Commit(g, deltaTime) ==
    [g EXCEPT !.cells =
        [y \in 0..(g.height - 1) |->
            [x \in 0..(g.width - 1) |->
                [temperature |-> g.cells[y][x].nextTemperature,
                 nextTemperature |-> g.cells[y][x].nextTemperature,
                 lastUpdate |-> deltaTime]]]]

update(g, deltaTime) == Commit(diffuseTemperature(g), deltaTime)

\* getTemperature that clamps a position off the grid to the nearest cell
getTemperatureClamped(g, x, y) ==
    g.cells[IF y < g.height THEN y ELSE g.height - 1]
           [IF x < g.width THEN x ELSE g.width - 1].temperature

getTemperature(g, x, y) ==
    IF ~isValidPosition(g, x, y) THEN g.ambientTemperature
    ELSE g.cells[y][x].temperature

\* setTemperature that leaves the value for the next update to commit
setTemperatureDeferred(g, x, y, temp) ==
    IF isValidPosition(g, x, y)
    THEN [g EXCEPT !.cells[y][x].nextTemperature = temp]
    ELSE g

\* setTemperature that also resets the stamp of the cell
setTemperatureRestamped(g, x, y, temp) ==
    IF isValidPosition(g, x, y)
    THEN [g EXCEPT !.cells[y][x] =
             [temperature |-> temp, nextTemperature |-> temp, lastUpdate |-> 0]]
    ELSE g

setTemperature(g, x, y, temp) ==
    IF isValidPosition(g, x, y)
    THEN [g EXCEPT !.cells[y][x].temperature = temp,
                   !.cells[y][x].nextTemperature = temp]
    ELSE g

(***************************************************************************)
(* SaveSystem.                                                             *)
(***************************************************************************)
RECURSIVE PushTemperaturesByColumn(_, _, _, _)
\* the two loops with x outer and y inner
PushTemperaturesByColumn(g, x, y, temps) ==
    IF x >= g.width THEN temps
    ELSE IF y >= g.height THEN PushTemperaturesByColumn(g, x + 1, 0, temps)
    ELSE PushTemperaturesByColumn(g, x, y + 1,
                                  Append(temps, DoubleBits(getTemperature(g, x, y))))

RECURSIVE PushTemperatures(_, _, _, _)
\* the two loops of GetTemperatureData from (x, y) on, y outer and x inner; temps
\* holds the doubles as the record holds them
PushTemperatures(g, x, y, temps) ==
    IF y >= g.height THEN temps
    ELSE IF x >= g.width THEN PushTemperatures(g, 0, y + 1, temps)
    ELSE PushTemperatures(g, x + 1, y, Append(temps, DoubleBits(getTemperature(g, x, y))))

GetTemperatureData(g) == PushTemperatures(g, 0, 0, <<>>)

\* the GameSaveData SaveGame builds; now is the clock's reading
BuildSaveData(saveName, g, simulationTime, now) ==
    [saveName |-> saveName,
     timestamp |-> now,
     version |-> U(CURRENT_VERSION, 4),
     world |-> [width |-> U(g.width, 4), height |-> U(g.height, 4),
                simulationTime |-> DoubleBits(simulationTime)],
     temperatureData |-> [temperatures |-> GetTemperatureData(g),
                          ambientTemperature |-> DoubleBits(g.ambientTemperature)],
     creatures |-> <<>>]

\* LoadGame after the call of Deserialize: the record, or the std::runtime_error
\* thrown from the catch block, whose message is "Failed to load game: " followed
\* by e.what() of the exception caught (cause).  reader is the BinaryReader as
\* Deserialize left it.
ReturnOrRethrow(d) ==
    IF d.obj.r.err = NoError
    THEN [ok |-> TRUE, data |-> d.obj.v, error |-> NoError,
          reader |-> d.obj.r, atBody |-> d.atBody]
    ELSE [ok |-> FALSE, data |-> <<>>,
          error |-> [type |-> "std::runtime_error",
                     what |-> <<"Failed to load game: ", d.obj.r.err.what>>,
                     cause |-> d.obj.r.err],
          reader |-> d.obj.r, atBody |-> d.atBody]

LoadGameOutcome(data) == ReturnOrRethrow(Deserialize(data))

(***************************************************************************)
(* The inputs of the operations.                                           *)
(***************************************************************************)
\* ambientTemp of the constructor: 20.0, the default
AmbientVals == {Fx(20)}

\* temp of setTemperature: 40.0, above every temperature of a fresh grid
SetVals == {Fx(40)}

\* deltaTime of update
Ticks == {1, 16}

RECURSIVE SeqsUpTo(_, _)
\* the sequences over S of length at most n
SeqsUpTo(S, n) ==
    IF n = 0 THEN {<<>>}
    ELSE LET shorter == SeqsUpTo(S, n - 1)
         IN  shorter \cup {Append(q, e) : q \in {p \in shorter : Len(p) = n - 1}, e \in S}

\* saveName: strings over "A"
Names == SeqsUpTo({65}, MaxName)

\* std::chrono::system_clock::now().time_since_epoch().count()
Clock == {<<24, 100, 201, 49, 128, 3, 250, 7>>}

\* simulationTime: 1.5
SimTimes == {Fx(1) + Scale \div 2}

\* the k-th creature of a list: its dna is bytes 7, of a length that goes round
\* 0 .. MaxDna with k, starting at first
Creature(k, first) ==
    [x |-> FloatBits(Fx(k)), y |-> FloatBits(0 - Fx(2)), energy |-> FloatBits(Fx(5)),
     dna |-> [i \in 1..((k + first) % (MaxDna + 1)) |-> 7]]

CreatureLists ==
    {[k \in 1..n |-> Creature(k, first)] : n \in 0..MaxCreatures, first \in 0..MaxDna}

\* The records given to Serialize: any name, a creature list, a width and a height
\* up to MaxRecDim, and temperatures that alternate between two values, starting
\* with the one that seed picks.  The temperatures are width * height in number,
\* or none: Serialize takes the record as the caller built it.
Records ==
    {[saveName |-> name,
      timestamp |-> now,
      version |-> U(CURRENT_VERSION, 4),
      world |-> [width |-> U(w, 4), height |-> U(h, 4),
                 simulationTime |-> DoubleBits(Fx(seed))],
      temperatureData |->
          [temperatures |-> [i \in 1..(IF full THEN w * h ELSE 0) |->
                                DoubleBits(Fx(20 * ((i + seed) % 2)))],
           ambientTemperature |-> DoubleBits(Fx(20 * seed))],
      creatures |-> creatures] :
        name \in Names, now \in Clock, w \in 0..MaxRecDim, h \in 0..MaxRecDim,
        full \in BOOLEAN, seed \in 0..1, creatures \in CreatureLists}

\* the values a byte of a buffer is overwritten with
ByteVals == {0, 2, 255}

(***************************************************************************)
(* The state machine.                                                      *)
(*   grid      the TemperatureSystem                                       *)
(*   last      the last operation that wrote the grid, with its arguments  *)
(*   nops      the number of update and setTemperature calls so far        *)
(*   saveData  the GameSaveData last serialized                            *)
(*   origin    what serialized it: "SaveGame", "Serialize" or "none"       *)
(*   saved     the buffer Serialize returned                               *)
(*   buf       the buffer as it is now, after storage or transfer          *)
(*   result    what LoadGame(buf) gave, NoResult before the call           *)
(*   reader    a BinaryReader over buf used on its own, with the last      *)
(*             operation called on it; NoReader when there is none         *)
(***************************************************************************)
NoResult == [ok |-> FALSE, pending |-> TRUE]

NoReader == [op |-> "none"]

Init ==
    /\ grid \in {TemperatureSystem(w, h, a) :
                    w \in 1..MaxDim, h \in 1..MaxDim, a \in AmbientVals}
    /\ last = [op |-> "TemperatureSystem"]
    /\ nops = 0
    /\ saveData = <<>>
    /\ origin = "none"
    /\ saved = <<>>
    /\ buf = <<>>
    /\ result = NoResult
    /\ reader = NoReader

codecVars == <<saveData, origin, saved, buf, result>>

\* update(deltaTime).  The grid is followed for MaxOps calls, up to its save.
Update(deltaTime) ==
    /\ nops < MaxOps
    /\ origin = "none"
    /\ grid' = update(grid, deltaTime)
    /\ last' = [op |-> "update", deltaTime |-> deltaTime]
    /\ nops' = nops + 1
    /\ UNCHANGED <<codecVars, reader>>

\* setTemperature(x, y, temp)
SetTemperature(x, y, temp) ==
    /\ nops < MaxOps
    /\ origin = "none"
    /\ grid' = setTemperature(grid, x, y, temp)
    /\ last' = [op |-> "setTemperature", x |-> x, y |-> y, temp |-> temp]
    /\ nops' = nops + 1
    /\ UNCHANGED <<codecVars, reader>>

\* SaveSystem::SaveGame(saveName, tempSystem, simulationTime); the buffer it returns
\* is saved, and buf a copy of it
SaveGame(saveName, simulationTime, now) ==
    /\ origin = "none"
    /\ saveData' = BuildSaveData(saveName, grid, simulationTime, now)
    /\ origin' = "SaveGame"
    /\ saved' = Serialize(saveData')
    /\ buf' = saved'
    /\ result' = NoResult
    /\ UNCHANGED <<reader, grid, last, nops>>

\* Serialize(obj) of a record built by the caller
SerializeRecord(obj) ==
    /\ origin = "none"
    /\ saveData' = obj
    /\ origin' = "Serialize"
    /\ saved' = Serialize(obj)
    /\ buf' = saved'
    /\ result' = NoResult
    /\ UNCHANGED <<reader, grid, last, nops>>

\* the buffer loses its end in storage or transfer: n bytes are left
Truncate(n) ==
    /\ origin # "none"
    /\ buf = saved
    /\ result = NoResult
    /\ n < Len(buf)
    /\ buf' = SubSeq(buf, 1, n)
    /\ UNCHANGED <<reader, grid, last, nops, saveData, origin, saved, result>>

\* the offsets at which the buffer differs from the one Serialize returned
Damaged == {i \in 0..(Len(saved) - 1) : i >= Len(buf) \/ buf[i + 1] # saved[i + 1]}

\* The byte at offset i of the buffer is overwritten with b: one byte anywhere, or
\* a byte of the version field after a byte of the magic.
SetByte(i, b) ==
    /\ origin # "none"
    /\ result = NoResult
    /\ Len(buf) = Len(saved)
    /\ i < Len(buf)
    /\ buf[i + 1] # b
    /\ \/ buf = saved
       \/ /\ 4 <= i
          /\ i < HeaderSize
          /\ \A j \in Damaged : j < 4
    /\ buf' = [buf EXCEPT ![i + 1] = b]
    /\ UNCHANGED <<reader, grid, last, nops, saveData, origin, saved, result>>

\* SaveSystem::LoadGame(buf.data(), buf.size())
LoadGame ==
    /\ origin # "none"
    /\ result = NoResult
    /\ result' = LoadGameOutcome(buf)
    /\ UNCHANGED <<reader, grid, last, nops, saveData, origin, saved, buf>>

\* The grid and the saves of it, under the empty name: SaveSpec varies the name.
Next ==
    \/ \E deltaTime \in Ticks : Update(deltaTime)
    \/ \E x \in 0..MaxDim, y \in 0..MaxDim, temp \in SetVals : SetTemperature(x, y, temp)
    \/ \E simulationTime \in SimTimes, now \in Clock :
          SaveGame(<<>>, simulationTime, now)

Spec == Init /\ [][Next]_vars

\* A save of a fresh grid is damaged or not, and loaded.
SaveNext ==
    \/ \E saveName \in Names, simulationTime \in SimTimes, now \in Clock :
          SaveGame(saveName, simulationTime, now)
    \/ \E n \in 0..(Len(buf) - 1) : Truncate(n)
    \/ \E i \in 0..(Len(buf) - 1), b \in ByteVals : SetByte(i, b)
    \/ LoadGame

SaveSpec == Init /\ [][SaveNext]_vars

\* A record is serialized, the buffer damaged or not, and loaded.  The grid has
\* no part in it.
CodecInit == Init /\ grid.width = 1 /\ grid.height = 1

CodecNext ==
    \/ \E obj \in Records : SerializeRecord(obj)
    \/ \E n \in 0..(Len(buf) - 1) : Truncate(n)
    \/ \E i \in 0..(Len(buf) - 1), b \in ByteVals : SetByte(i, b)
    \/ LoadGame

CodecSpec == CodecInit /\ [][CodecNext]_vars

(***************************************************************************)
(* A BinaryReader used on its own: BinaryReader reader(data, size) over a  *)
(* caller-chosen buffer, then any sequence of read operations.  A caller   *)
(* that catches an exception may go on reading: the cursor stays where the *)
(* failed operation left it.  The build decides the width of size_t: 4     *)
(* bytes for the wasm32 target of wasm_bindings.cpp, 8 for a native one.   *)
(***************************************************************************)
MaxChunks == 2

Chunks == {<<255, 255, 255, 255>>, <<2, 0, 0, 0>>, <<0>>, <<7, 1>>}

RECURSIVE Flatten(_)
Flatten(cs) == IF cs = <<>> THEN <<>> ELSE Head(cs) \o Flatten(Tail(cs))

Buffers == {Flatten(cs) : cs \in SeqsUpTo(Chunks, MaxChunks)}

SizeTBytes == {4, 8}

\* the size arguments a caller passes to ReadBytes, as size_t numerals
ReadSizes(bytes) ==
    {U(0, bytes), U(2, bytes), Complement(U(2, bytes)), Complement(U(0, bytes))}

\* What the build can do once the copy starts past the check with a length
\* that reaches beyond the buffer: the std::string constructor can throw
\* std::length_error or std::bad_alloc before it copies, and either copy can
\* read bytes at indices >= m_size.
UndefinedOutcomes(what) ==
    IF what = "std::string(m_data + m_position, length)"
    THEN {[type |-> "std::length_error", what |-> what],
          [type |-> "std::bad_alloc", what |-> what],
          [type |-> "out-of-bounds read", what |-> what]}
    ELSE {[type |-> "out-of-bounds read", what |-> what]}

Resolve(rd) ==
    IF rd.r.err.type = "undefined behaviour"
    THEN {[rd EXCEPT !.r.err = e] : e \in UndefinedOutcomes(rd.r.err.what)}
    ELSE {rd}

CppExceptions ==
    {"none", "std::out_of_range", "std::runtime_error", "std::length_error",
     "std::bad_alloc"}

Usable == reader # NoReader /\ reader.r.err.type \in CppExceptions

Caught(r) == [r EXCEPT !.err = NoError]

Open(data, bytes) ==
    /\ reader = NoReader
    /\ buf' = data
    /\ reader' = [r |-> BinaryReaderOn(bytes), op |-> "BinaryReader", from |-> 0,
                  size |-> <<>>, v |-> <<>>]
    /\ UNCHANGED <<grid, last, nops, saveData, origin, saved, result>>

Call(op, size, rd) ==
    /\ reader' \in Resolve([r |-> rd.r, op |-> op, from |-> reader.r.m_position,
                            size |-> size, v |-> rd.v])
    /\ UNCHANGED <<grid, last, nops, saveData, origin, saved, buf, result>>

CallReadUint8 == Usable /\ Call("ReadUint8", <<>>, ReadUint8(buf, Caught(reader.r)))

CallReadUint16 == Usable /\ Call("ReadUint16", <<>>, ReadUint16(buf, Caught(reader.r)))

CallReadUint32 == Usable /\ Call("ReadUint32", <<>>, ReadUint32(buf, Caught(reader.r)))

CallReadUint64 == Usable /\ Call("ReadUint64", <<>>, ReadUint64(buf, Caught(reader.r)))

CallReadFloat == Usable /\ Call("ReadFloat", <<>>, ReadFloat(buf, Caught(reader.r)))

CallReadDouble == Usable /\ Call("ReadDouble", <<>>, ReadDouble(buf, Caught(reader.r)))

CallReadBool == Usable /\ Call("ReadBool", <<>>, ReadBool(buf, Caught(reader.r)))

CallReadString == Usable /\ Call("ReadString", <<>>, ReadString(buf, Caught(reader.r)))

\* size is a size_t of this build
CallReadBytes(size) ==
    /\ Usable
    /\ Len(size) = reader.r.size_t
    /\ Call("ReadBytes", size, ReadBytes(buf, Caught(reader.r), size))

ReaderNext ==
    \/ \E data \in Buffers, bytes \in SizeTBytes : Open(data, bytes)
    \/ CallReadUint8
    \/ CallReadUint16
    \/ CallReadUint32
    \/ CallReadUint64
    \/ CallReadFloat
    \/ CallReadDouble
    \/ CallReadBool
    \/ CallReadString
    \/ \E bytes \in SizeTBytes : \E size \in ReadSizes(bytes) : CallReadBytes(size)

ReaderSpec == CodecInit /\ [][ReaderNext]_vars

(***************************************************************************)
(* The properties.                                                         *)
(***************************************************************************)
\* LoadGame has returned or thrown
Loaded == result # NoResult

\* the buffer is the first Len(buf) bytes of the one Serialize returned
IsPrefix == Len(buf) <= Len(saved) /\ buf = SubSeq(saved, 1, Len(buf))

\* the bytes of SERIALIZATION_MAGIC as the envelope holds them: "SOVE"
MagicValid == Len(buf) >= 4 /\ SubSeq(buf, 1, 4) = <<83, 79, 86, 69>>

\* the little-endian uint16 at offsets 4 .. 5
VersionField == buf[5] + 256 * buf[6]

\* LoadGame threw the std::runtime_error that wraps cause
FailedWith(cause) ==
    /\ ~result.ok
    /\ result.data = <<>>
    /\ result.error.type = "std::runtime_error"
    /\ result.error.what = <<"Failed to load game: ", cause.what>>
    /\ result.error.cause = cause

\* C1: Round trip.  For every GameSaveData record whose temperatures are
\* world.width * world.height in number, LoadGame of the buffer Serialize returned
\* for it succeeds and gives a record equal to it field for field.
C1_RoundTrip ==
    (/\ origin = "Serialize"
     /\ buf = saved
     /\ Loaded
     /\ Len(saveData.temperatureData.temperatures)
            = Val(saveData.world.width) * Val(saveData.world.height))
    => (result.ok /\ result.data = saveData)

\* C2: Envelope layout on read.  When Deserialize has validated the magic and
\* checked the version, the cursor of the reader is at offset 6, where Serialize
\* wrote the record body after 4 bytes of magic and 2 of version, and the body is
\* decoded from there.
C2_BodyAtOffset6 ==
    (Loaded /\ result.atBody.err = NoError)
    => (/\ SubSeq(saved, HeaderSize + 1, Len(saved))
               = GameSaveData_Serialize(<<>>, saveData)
        /\ result.atBody.m_position = HeaderSize)

\* C3: Magic gate.  For every buffer SaveGame produced, with any one of the 4 magic
\* bytes (offsets 0 .. 3) changed to another value, LoadGame fails with the
\* std::runtime_error "Invalid file format", wrapped as a load failure, whatever the
\* rest of the buffer holds, and returns no record.
C3_MagicGate ==
    (/\ origin = "SaveGame"
     /\ Loaded
     /\ Len(buf) = Len(saved)
     /\ \E i \in 0..3 : i \in Damaged)
    => FailedWith(RuntimeError("Invalid file format"))

\* a save whose magic byte at offset 2 alone was changed has been loaded
C3_Witness ==
    /\ origin = "SaveGame"
    /\ Loaded
    /\ Damaged = {2}
    /\ ~result.ok

\* C4: Version gate.  For every buffer with a valid magic whose little-endian
\* uint16 at offsets 4 .. 5 is above CURRENT_VERSION, LoadGame fails with
\* "Incompatible save version", whatever follows; a version of CURRENT_VERSION or
\* less, 0 included, is never rejected with that error; and the magic is checked
\* first: with a wrong magic the failure is "Invalid file format" whatever the
\* version.
C4_VersionGate ==
    (Loaded /\ Len(buf) >= HeaderSize)
    => /\ (MagicValid /\ VersionField > CURRENT_VERSION)
              => FailedWith(RuntimeError("Incompatible save version"))
       /\ VersionField <= CURRENT_VERSION
              => (result.ok
                  \/ result.error.cause # RuntimeError("Incompatible save version"))
       /\ ~MagicValid => FailedWith(RuntimeError("Invalid file format"))

\* a well-formed buffer whose version field alone was changed, to
\* CURRENT_VERSION + 1, has been loaded
C4_Witness ==
    /\ Loaded
    /\ Damaged = {4}
    /\ MagicValid
    /\ VersionField = CURRENT_VERSION + 1
    /\ ~result.ok

\* C5: Header truncation.  For every buffer SaveGame produced and every n in
\* 0 .. 5, LoadGame of its first n bytes fails with a std::out_of_range wrapped as a
\* load failure, and returns no record.
C5_HeaderTruncation ==
    (/\ origin = "SaveGame"
     /\ Loaded
     /\ IsPrefix
     /\ Len(buf) < HeaderSize)
    => /\ ~result.ok
       /\ result.error.cause.type = "std::out_of_range"
       /\ FailedWith(result.error.cause)

\* the first 3 bytes of a save have been loaded
C5_Witness ==
    /\ origin = "SaveGame"
    /\ Loaded
    /\ IsPrefix
    /\ Len(buf) = 3
    /\ result.error.cause = OutOfRange("Read past end of buffer")

\* C6: LoadGame is all-or-nothing on every buffer.  It returns a record whose
\* fields were all decoded by reads within the buffer, or it fails with the
\* std::runtime_error "Failed to load game: ..." that carries the cause; and a wrong
\* magic, a newer version, or a buffer cut short at any offset of the body always
\* gives the failure.
C6_AllOrNothing ==
    Loaded
    => /\ \/ /\ result.ok
             /\ result.reader.err = NoError
             /\ result.reader.m_position <= Len(buf)
          \/ /\ result.reader.err # NoError
             /\ FailedWith(result.reader.err)
       /\ (Len(buf) >= 4 /\ ~MagicValid) => ~result.ok
       /\ (Len(buf) >= HeaderSize /\ VersionField > CURRENT_VERSION) => ~result.ok
       /\ (IsPrefix /\ Len(buf) < Len(saved)) => ~result.ok

\* the temperatures of the cells of g
Temperatures(g) ==
    {g.cells[y][x].temperature : x \in 0..(g.width - 1), y \in 0..(g.height - 1)}

\* C7: Boundary fallback.  In every grid state reached by update and
\* setTemperature calls, for every grid size, getTemperature(x, y) with
\* x >= width or y >= height gives ambientTemperature exactly; getTemperature
\* gives a value at every position, and is a function of the grid, which it
\* leaves as it is.
C7_BoundaryFallback ==
    \A x \in 0..(MaxDim + 1), y \in 0..(MaxDim + 1) :
        /\ getTemperature(grid, x, y) \in Int
        /\ (x >= grid.width \/ y >= grid.height)
               => getTemperature(grid, x, y) = grid.ambientTemperature

\* a grid smaller than MaxDim each way, none of whose cells is at
\* ambientTemperature, after a setTemperature and an update
C7_Witness ==
    /\ last.op = "update"
    /\ nops >= 2
    /\ grid.width < MaxDim
    /\ grid.height < MaxDim
    /\ grid.ambientTemperature \notin Temperatures(grid)
    /\ \E t \in Temperatures(grid) : t > grid.ambientTemperature

\* C8: Write then read.  In every grid state reached, for every (x, y) on the
\* grid and every v, getTemperature(x, y) right after setTemperature(x, y, v)
\* gives v.
C8_WriteThenRead ==
    /\ (last.op = "setTemperature" /\ isValidPosition(grid, last.x, last.y))
           => getTemperature(grid, last.x, last.y) = last.temp
    /\ \A x \in 0..(grid.width - 1), y \in 0..(grid.height - 1),
          v \in SetVals \cup {0, 0 - Fx(1)} :
           getTemperature(setTemperature(grid, x, y, v), x, y) = v

\* setTemperature has just written a cell that held another value after an update
C8_Witness ==
    /\ last.op = "setTemperature"
    /\ nops >= 2
    /\ isValidPosition(grid, last.x, last.y)
    /\ getTemperature(grid, last.x, last.y) = last.temp
    /\ \E x \in 0..(grid.width - 1), y \in 0..(grid.height - 1) :
           /\ <<x, y>> # <<last.x, last.y>>
           /\ grid.cells[y][x].lastUpdate > 0

\* the largest and the smallest element of a set of numbers
SetMax(S) == CHOOSE m \in S : \A e \in S : e <= m

SetMin(S) == CHOOSE m \in S : \A e \in S : m <= e

\* C9: Diffusion is non-expansive.  Over every update step, every new cell
\* temperature lies between the smallest and the largest temperature the grid had
\* before the step, so max - min over the cells does not grow.
C9_NonExpansive ==
    [][(last'.op = "update" /\ nops' = nops + 1)
          => /\ \A t \in Temperatures(grid') :
                    SetMin(Temperatures(grid)) <= t /\ t <= SetMax(Temperatures(grid))
             /\ SetMax(Temperatures(grid')) - SetMin(Temperatures(grid'))
                    <= SetMax(Temperatures(grid)) - SetMin(Temperatures(grid))]_vars

\* an update has moved the cell that setTemperature raised, and a neighbour of it,
\* towards each other
C9_Witness ==
    /\ last.op = "update"
    /\ nops >= 2
    /\ \E t \in Temperatures(grid) :
           grid.ambientTemperature < t /\ t < SetMax(SetVals)
    /\ Cardinality(Temperatures(grid)) >= 3

\* the record d has the shape of a snapshot of g
SnapshotOf(d, g) ==
    /\ d.world.width = U(g.width, 4)
    /\ d.world.height = U(g.height, 4)
    /\ Len(d.temperatureData.temperatures) = g.width * g.height
    /\ \A x \in 0..(g.width - 1), y \in 0..(g.height - 1) :
           d.temperatureData.temperatures[y * g.width + x + 1]
               = DoubleBits(g.cells[y][x].temperature)
    /\ d.version = U(CURRENT_VERSION, 4)
    /\ d.creatures = <<>>

\* C10: SaveGame snapshot shape.  For every grid state, the record SaveGame
\* builds has world.width and world.height of the grid, width * height
\* temperatures with temperatures[y * width + x] the grid's temperature at (x, y),
\* version CURRENT_VERSION and no creatures; and SaveGame leaves the grid as it is.
C10_SnapshotShape ==
    [][(origin = "none" /\ origin' = "SaveGame")
          => (grid' = grid /\ SnapshotOf(saveData', grid))]_vars

\* a grid wider than high, with a cell raised by setTemperature, has been saved
C10_Witness ==
    /\ origin = "SaveGame"
    /\ grid.width > grid.height
    /\ grid.height > 1
    /\ last.op = "setTemperature"
    /\ isValidPosition(grid, last.x, last.y)
    /\ SnapshotOf(saveData, grid)

\* temperatures.length == world.width * world.height for the record d, whose width
\* and height are numerals: a product equal to a length n > 0 has factors up to n
CountMatches(d) ==
    LET n == Len(d.temperatureData.temperatures)
    IN  IF n = 0
        THEN d.world.width = Zero(4) \/ d.world.height = Zero(4)
        ELSE /\ ~NatLess(n, d.world.width)
             /\ ~NatLess(n, d.world.height)
             /\ Val(d.world.width) * Val(d.world.height) = n

\* C11: Temperature-count check on read.  LoadGame rejects every buffer whose
\* encoded temperature count differs from world.width * world.height: every record
\* it returns has temperatures.length == world.width * world.height.
C11_CountChecked ==
    (Loaded /\ result.ok) => CountMatches(result.data)

\* the positions of the grid g, and the 4-neighbours of (x, y) that are among them
Positions(g) == (0..(g.width - 1)) \X (0..(g.height - 1))

Neighbours(g, x, y) ==
    {p \in Positions(g) :
        \/ p[1] = x /\ (p[2] = y + 1 \/ p[2] = y - 1)
        \/ p[2] = y /\ (p[1] = x + 1 \/ p[1] = x - 1)}

RECURSIVE SumOver(_, _)
\* the sum of the temperatures of g at the positions of P
SumOver(g, P) ==
    IF P = {} THEN 0
    ELSE LET p == CHOOSE q \in P : TRUE
         IN  g.cells[p[2]][p[1]].temperature + SumOver(g, P \ {p})

\* old + (avg - old) * DIFFUSION_RATE for the cell (x, y) of g, avg the mean of the
\* temperatures of its neighbours in g; old when it has none
Relaxed(g, x, y) ==
    LET N   == Neighbours(g, x, y)
        old == g.cells[y][x].temperature
    IN  IF N = {} THEN old
        ELSE old + RoundDiv((RoundDiv(SumOver(g, N), Cardinality(N)) - old)
                                * DIFFUSION_RATE[1], DIFFUSION_RATE[2])

\* C12: Synchronous two-phase step.  Over every update step and for every cell
\* (x, y), the temperature after the step is old + (avg - old) * DIFFUSION_RATE,
\* with old the cell's temperature and avg the mean of the temperatures of its
\* in-bounds 4-neighbours, all as they were before the step: no cell reads a value
\* written in the same step, whatever the order of the sweep.
C12_TwoPhaseStep ==
    [][(last'.op = "update" /\ nops' = nops + 1)
          => \A p \in Positions(grid) :
                 grid'.cells[p[2]][p[1]].temperature = Relaxed(grid, p[1], p[2])]_vars

\* an update of a grid of 2 x 2 cells or more in which setTemperature had raised a
\* cell has changed two neighbouring cells
C12_Witness ==
    /\ last.op = "update"
    /\ nops >= 2
    /\ grid.width >= 2
    /\ grid.height >= 2
    /\ \E p \in Positions(grid) :
           /\ grid.cells[p[2]][p[1]].temperature > grid.ambientTemperature
           /\ \E q \in Neighbours(grid, p[1], p[2]) :
                  grid.cells[q[2]][q[1]].temperature
                      \notin Temperatures(TemperatureSystem(grid.width, grid.height,
                                                            grid.ambientTemperature))

\* C13: Commit invariant.  When update(tick) has returned, every cell has
\* lastUpdate == tick and temperature == nextTemperature; and after construction
\* and after every update and setTemperature call, every cell has
\* temperature == nextTemperature.
C13_CommitInvariant ==
    /\ \A p \in Positions(grid) :
           grid.cells[p[2]][p[1]].temperature = grid.cells[p[2]][p[1]].nextTemperature
    /\ last.op = "update"
           => \A p \in Positions(grid) :
                  grid.cells[p[2]][p[1]].lastUpdate = last.deltaTime

\* an update with the larger tick has returned, after a setTemperature and an update
\* with the smaller one
C13_Witness ==
    /\ last = [op |-> "update", deltaTime |-> 16]
    /\ nops >= 2
    /\ \E t \in Temperatures(grid) : t > grid.ambientTemperature
    /\ \A p \in Positions(grid) : grid.cells[p[2]][p[1]].lastUpdate = 16

\* C16: setTemperature frame.  Over every setTemperature(x, y, v) step: with (x, y)
\* off the grid the whole grid stays as it is; with (x, y) on it only temperature
\* and nextTemperature of the cell (x, y) change, to v, and the cell's lastUpdate,
\* every other cell, width, height and ambientTemperature stay.  And no step of
\* any operation changes width, height or ambientTemperature.
C16_SetTemperatureFrame ==
    [][/\ grid'.width = grid.width
       /\ grid'.height = grid.height
       /\ grid'.ambientTemperature = grid.ambientTemperature
       /\ (last'.op = "setTemperature" /\ nops' = nops + 1)
              => /\ (last'.x >= grid.width \/ last'.y >= grid.height) => grid' = grid
                 /\ \A p \in Positions(grid) :
                        IF p = <<last'.x, last'.y>>
                        THEN grid'.cells[p[2]][p[1]] =
                                 [temperature |-> last'.temp,
                                  nextTemperature |-> last'.temp,
                                  lastUpdate |-> grid.cells[p[2]][p[1]].lastUpdate]
                        ELSE grid'.cells[p[2]][p[1]] = grid.cells[p[2]][p[1]]
                 /\ DOMAIN grid'.cells = DOMAIN grid.cells
                 /\ \A y \in DOMAIN grid.cells :
                        DOMAIN grid'.cells[y] = DOMAIN grid.cells[y]]_vars

\* setTemperature has written a cell that an update had stamped, and the stamp is
\* still there
C16_Witness ==
    /\ last.op = "setTemperature"
    /\ isValidPosition(grid, last.x, last.y)
    /\ grid.cells[last.y][last.x].lastUpdate > 0
    /\ grid.cells[last.y][last.x].temperature = last.temp
    /\ grid.width > 1

\* the number of neighbours the compute phase averages over for the cell (x, y)
Count(g, x, y) == NeighbourSum(g, x, y, 1, [sum |-> 0, count |-> 0]).count

\* x is on a border column of g, y on a border row
BorderX(g, x) == x = 0 \/ x = g.width - 1

BorderY(g, y) == y = 0 \/ y = g.height - 1

\* a cell has no in-bounds neighbour only in a 1 x 1 grid, and update then leaves
\* its temperature as it is
LoneCell(g) ==
    /\ \A p \in Positions(g) :
           Count(g, p[1], p[2]) = 0 <=> (g.width = 1 /\ g.height = 1)
    /\ (g.width = 1 /\ g.height = 1)
           => \A deltaTime \in Ticks :
                  update(g, deltaTime).cells[0][0].temperature = g.cells[0][0].temperature

\* C17 as stated: Neighbour counts in the compute phase.  For every grid with
\* width, height > 0, a corner cell averages over exactly 2 neighbours, a
\* non-corner edge cell over exactly 3, an interior cell over exactly 4; a cell has
\* zero in-bounds neighbours only in a 1 x 1 grid, where update leaves its
\* temperature unchanged.
C17_AsStated ==
    /\ LoneCell(grid)
    /\ ~(grid.width = 1 /\ grid.height = 1)
           => \A p \in Positions(grid) :
                  Count(grid, p[1], p[2]) =
                      IF BorderX(grid, p[1]) /\ BorderY(grid, p[2]) THEN 2
                      ELSE IF BorderX(grid, p[1]) \/ BorderY(grid, p[2]) THEN 3
                      ELSE 4

\* C17: Neighbour counts in the compute phase.  Every cell averages over exactly
\* its in-bounds 4-neighbours.  In a grid of width >= 2 and height >= 2 that is 2
\* for a corner cell, 3 for a non-corner edge cell and 4 for an interior cell; in a
\* grid one cell wide or high an end cell has 1 neighbour and the cells between
\* have 2.  A cell has zero in-bounds neighbours only in a 1 x 1 grid, where update
\* leaves its temperature unchanged.
C17_NeighbourCounts ==
    /\ LoneCell(grid)
    /\ \A p \in Positions(grid) :
           /\ Count(grid, p[1], p[2]) = Cardinality(Neighbours(grid, p[1], p[2]))
           /\ (grid.width >= 2 /\ grid.height >= 2)
                  => Count(grid, p[1], p[2]) =
                         IF BorderX(grid, p[1]) /\ BorderY(grid, p[2]) THEN 2
                         ELSE IF BorderX(grid, p[1]) \/ BorderY(grid, p[2]) THEN 3
                         ELSE 4
           /\ (grid.width = 1 /\ grid.height >= 2)
                  => Count(grid, p[1], p[2]) = IF BorderY(grid, p[2]) THEN 1 ELSE 2
           /\ (grid.height = 1 /\ grid.width >= 2)
                  => Count(grid, p[1], p[2]) = IF BorderX(grid, p[1]) THEN 1 ELSE 2

\* a grid with an interior cell, which has 4 neighbours, has been updated
C17_Witness ==
    /\ last.op = "update"
    /\ grid.width >= 3
    /\ grid.height >= 3
    /\ Count(grid, 1, 1) = 4
    /\ Count(grid, 0, 0) = 2
    /\ Count(grid, 1, 0) = 3

\* a read operation has been called on the reader
Called == reader # NoReader /\ reader.op # "BinaryReader"

\* the bytes the operation consumed, from the operation and the value it gave
Consumed ==
    CASE reader.op \in {"ReadUint8", "ReadBool"} -> 1
      [] reader.op = "ReadUint16" -> 2
      [] reader.op \in {"ReadUint32", "ReadFloat"} -> 4
      [] reader.op \in {"ReadUint64", "ReadDouble"} -> 8
      [] reader.op = "ReadString" -> 4 + Len(reader.v)
      [] reader.op = "ReadBytes" -> Len(reader.v)

\* the length the operation was asked to copy: the size argument of ReadBytes,
\* the uint32 length prefix of ReadString
Declared ==
    IF reader.op = "ReadBytes" THEN reader.size
    ELSE OrBytesLowFirst(buf, reader.from, Zero(4), 0, 4)

\* the cursor at which the copy starts, and the bytes left from there
CopyFrom == IF reader.op = "ReadBytes" THEN reader.from ELSE reader.from + 4

Oversized ==
    /\ Called
    /\ reader.op \in {"ReadString", "ReadBytes"}
    /\ CopyFrom <= Len(buf)
    /\ NatLess(Len(buf) - CopyFrom, Declared)

\* C14: every read operation either succeeds, advancing the cursor by exactly
\* the bytes it consumed, or fails with std::out_of_range; the cursor stays
\* within 0..size and no byte at an index >= size is read.
C14_CursorInvariant ==
    Called =>
        /\ 0 <= reader.r.m_position
        /\ reader.r.m_position <= Len(buf)
        /\ \/ reader.r.err = NoError /\ reader.r.m_position = reader.from + Consumed
           \/ reader.r.err.type = "std::out_of_range"

\* C15: a ReadString or ReadBytes whose declared length exceeds the bytes
\* remaining fails with std::out_of_range and copies nothing, also when
\* cursor + length does not fit size_t.
C15_LengthGuard ==
    Oversized => reader.r.err.type = "std::out_of_range" /\ reader.v = <<>>

====
